---- MODULE Spec2Model ----
(***************************************************************************)
(* Model of the LeetGoat proxy server (src/server/server.js): the in-memory *)
(* response cache (generateCacheKey, getCached, setCached) and the two     *)
(* caching routes POST /api/vision and POST /api/openai, the streaming     *)
(* relay of the latter included.                                           *)
(*                                                                         *)
(* JSON values are tagged records, a JS object is the sequence of its      *)
(* <<name, value>> members in insertion order, and the Map `cache` is the   *)
(* sequence of its entries in insertion order.                             *)
(***************************************************************************)
EXTENDS Integers, Sequences, FiniteSets, TLC

VARIABLES
  env,      \* process.env: the two credentials
  cache,    \* the Map `cache`, entries in insertion order
  now,      \* Date.now(), in ticks
  reqs,     \* the inbound calls, by arrival number
  hist,     \* the direct calls of getCached / setCached made so far (StoreSpec)
  client    \* the extension's reader of a streamed response (ClientSpec)

vars == <<env, cache, now, reqs, hist, client>>

-----------------------------------------------------------------------------
(* Bounds of the model.  MAX_CACHE_SIZE and CACHE_TTL are the program's     *)
(* constants 1000 (server.js:16) and 3600000 ms (server.js:15) scaled down *)
(* so that capacity and expiry are reached.                                *)

MAX_CACHE_SIZE == 3
CACHE_TTL == 1
MaxTime == 2
\* the number of direct store calls StoreSpec makes
MaxOps == 5

-----------------------------------------------------------------------------
(* JSON values *)

JNull == [t |-> "null"]
Undefined == [t |-> "undefined"]
JBool(b) == [t |-> "bool", v |-> b]
JNum(n) == [t |-> "num", v |-> n]
JStr(s) == [t |-> "str", v |-> s]
JArr(xs) == [t |-> "arr", v |-> xs]
JObj(ms) == [t |-> "obj", v |-> ms]

\* obj[name]: the member's value, undefined when the object has none
Prop(obj, name) ==
  IF obj.t = "obj" /\ \E i \in 1..Len(obj.v) : obj.v[i][1] = name
    THEN obj.v[CHOOSE i \in 1..Len(obj.v) : obj.v[i][1] = name][2]
    ELSE Undefined

\* JS truthiness, as tested by if (x) and !x
Truthy(x) ==
  CASE x.t = "null" -> FALSE
    [] x.t = "undefined" -> FALSE
    [] x.t = "bool" -> x.v
    [] x.t = "num" -> x.v # 0
    [] x.t = "str" -> x.v # ""
    [] OTHER -> TRUE

\* JSON.stringify: members in the object's own order, undefined members
\* omitted, undefined array elements written as null.  JoinElements and
\* JoinMembers write the elements of an array and the members of an object
\* from the i-th on, separated by commas.
RECURSIVE Stringify(_), JoinElements(_, _), JoinMembers(_, _)
JoinElements(xs, i) ==
  IF i > Len(xs) THEN ""
  ELSE (IF i > 1 THEN "," ELSE "")
       \o (IF xs[i].t = "undefined" THEN "null" ELSE Stringify(xs[i]))
       \o JoinElements(xs, i + 1)

JoinMembers(ms, i) ==
  IF i > Len(ms) THEN ""
  ELSE (IF i > 1 THEN "," ELSE "")
       \o "\"" \o ms[i][1] \o "\":" \o Stringify(ms[i][2])
       \o JoinMembers(ms, i + 1)

Stringify(x) ==
  CASE x.t = "null" -> "null"
    [] x.t = "bool" -> IF x.v THEN "true" ELSE "false"
    [] x.t = "num" -> ToString(x.v)
    [] x.t = "str" -> "\"" \o x.v \o "\""
    [] x.t = "arr" -> "[" \o JoinElements(x.v, 1) \o "]"
    [] x.t = "obj" ->
         "{" \o JoinMembers(SelectSeq(x.v, LAMBDA m : m[2].t # "undefined"), 1) \o "}"

\* crypto.createHash('sha256').update(s).digest('hex'): collision resistant,
\* so an injective function of the hashed text
Sha256Hex(s) == "sha256(" \o s \o ")"

\* mutant: the digest is salted with the time of the call
generateCacheKey_salted(data) == Sha256Hex(Stringify(data) \o ToString(now))

generateCacheKey(data) == Sha256Hex(Stringify(data))

-----------------------------------------------------------------------------
(* The cache store *)

NoEntry == [key |-> "", data |-> Undefined, timestamp |-> -1]

HasKey(c, key) == \E i \in 1..Len(c) : c[i].key = key

\* Map.get
MapGet(c, key) ==
  IF HasKey(c, key) THEN c[CHOOSE i \in 1..Len(c) : c[i].key = key] ELSE NoEntry

\* Map.delete
MapDelete(c, key) == SelectSeq(c, LAMBDA e : e.key # key)

\* Map.set: a present key keeps its place in the insertion order
MapSet(c, key, val) ==
  LET e == [key |-> key, data |-> val.data, timestamp |-> val.timestamp]
  IN IF HasKey(c, key)
       THEN [i \in 1..Len(c) |-> IF c[i].key = key THEN e ELSE c[i]]
       ELSE Append(c, e)

\* mutant: an entry of age exactly CACHE_TTL still counts as valid
getCached_inclusive(key) ==
  LET cached == MapGet(cache, key)
  IN IF cached # NoEntry /\ now - cached.timestamp <= CACHE_TTL
       THEN [ret |-> cached.data, cache |-> cache]
       ELSE [ret |-> JNull,
             cache |-> IF cached # NoEntry THEN MapDelete(cache, key) ELSE cache]

\* mutant: a hit moves the entry to the end of the insertion order (LRU)
getCached_lru(key) ==
  LET cached == MapGet(cache, key)
  IN IF cached # NoEntry /\ now - cached.timestamp < CACHE_TTL
       THEN [ret |-> cached.data,
             cache |-> Append(MapDelete(cache, key), cached)]
       ELSE [ret |-> JNull,
             cache |-> IF cached # NoEntry THEN MapDelete(cache, key) ELSE cache]

\* mutant: a lookup sweeps every expired entry out of the store
getCached_sweeps(key) ==
  LET cached == MapGet(cache, key)
      swept == SelectSeq(cache, LAMBDA e : now - e.timestamp < CACHE_TTL)
  IN IF cached # NoEntry /\ now - cached.timestamp < CACHE_TTL
       THEN [ret |-> cached.data, cache |-> swept]
       ELSE [ret |-> JNull, cache |-> swept]

\* getCached(key): the value returned and the store it leaves
getCached(key) ==
  LET cached == MapGet(cache, key)
  IN IF cached # NoEntry /\ now - cached.timestamp < CACHE_TTL
       THEN [ret |-> cached.data, cache |-> cache]
       ELSE [ret |-> JNull,
             cache |-> IF cached # NoEntry THEN MapDelete(cache, key) ELSE cache]

\* mutant: the store is trimmed only when it holds more than MAX_CACHE_SIZE
setCached_offByOne(key, data) ==
  LET c1 == IF Len(cache) > MAX_CACHE_SIZE
              THEN MapDelete(cache, cache[1].key)
              ELSE cache
  IN MapSet(c1, key, [data |-> data, timestamp |-> now])

\* mutant: a full store refuses the new entry instead of evicting
setCached_dropWhenFull(key, data) ==
  IF Len(cache) >= MAX_CACHE_SIZE
    THEN cache
    ELSE MapSet(cache, key, [data |-> data, timestamp |-> now])

\* mutant: an entry already in the store is kept (the first writer wins)
setCached_keepFirst(key, data) ==
  IF HasKey(cache, key) THEN cache
  ELSE LET c1 == IF Len(cache) >= MAX_CACHE_SIZE
                   THEN MapDelete(cache, cache[1].key)
                   ELSE cache
       IN MapSet(c1, key, [data |-> data, timestamp |-> now])

\* mutant: a full store is trimmed only when the put adds a key
setCached_evictWhenGrowing(key, data) ==
  LET c1 == IF Len(cache) >= MAX_CACHE_SIZE /\ ~HasKey(cache, key)
              THEN MapDelete(cache, cache[1].key)
              ELSE cache
  IN MapSet(c1, key, [data |-> data, timestamp |-> now])

\* mutant: a put on a present key keeps the time the entry was first stored
setCached_keepsTimestamp(key, data) ==
  LET c1 == IF Len(cache) >= MAX_CACHE_SIZE
              THEN MapDelete(cache, cache[1].key)
              ELSE cache
  IN MapSet(c1, key, [data |-> data,
                      timestamp |-> IF HasKey(c1, key) THEN MapGet(c1, key).timestamp
                                    ELSE now])

\* setCached(key, data): the store it leaves
setCached(key, data) ==
  LET c1 == IF Len(cache) >= MAX_CACHE_SIZE
              THEN MapDelete(cache, cache[1].key)
              ELSE cache
  IN MapSet(c1, key, [data |-> data, timestamp |-> now])

-----------------------------------------------------------------------------
(* Inputs: request bodies, credentials and upstream replies *)

Msgs == JArr(<<JObj(<<<<"role", JStr("user")>>, <<"content", JStr("hi")>>>>)>>)
MsgsSwapped == JArr(<<JObj(<<<<"content", JStr("hi")>>, <<"role", JStr("user")>>>>)>>)

\* exactly the members messages and model, in the order the chat route hashes
BodyBare == JObj(<<<<"messages", Msgs>>, <<"model", JStr("m")>>>>)
\* the same messages and model with different other fields
BodyTok1 == JObj(<<<<"model", JStr("m")>>, <<"messages", Msgs>>,
                   <<"max_completion_tokens", JNum(1)>>>>)
BodyTok2 == JObj(<<<<"model", JStr("m")>>, <<"messages", Msgs>>,
                   <<"max_completion_tokens", JNum(2)>>>>)
\* the streaming flag set
BodyStream == JObj(<<<<"model", JStr("m")>>, <<"stream", JBool(TRUE)>>,
                     <<"messages", Msgs>>>>)
\* BodyBare with the members of the message object in the other order
BodySwapped == JObj(<<<<"messages", MsgsSwapped>>, <<"model", JStr("m")>>>>)
\* an image annotation request
BodyImage == JObj(<<<<"requests", JStr("img")>>>>)

VisionBodies == {BodyBare, BodySwapped, BodyImage}
OpenAIBodies == {BodyBare, BodyTok1, BodyTok2, BodyStream, BodySwapped}

\* a credential is a string; the empty string stands for an unset variable
Credentials == {"", "secret"}

Data1 == JObj(<<<<"answer", JNum(1)>>>>)
Data2 == JObj(<<<<"answer", JNum(2)>>>>)
\* the values a 2xx body can parse to
UpstreamData == {Data1, Data2, JNull}

\* the chunks of a streamed upstream body
StreamChunks == <<"data: {}", "data: [DONE]">>

NoReply == [kind |-> "none", status |-> 0, text |-> "", json |-> Undefined]
\* fetch rejects (network failure)
ReplyReject == [kind |-> "reject", status |-> 0, text |-> "fetch failed", json |-> Undefined]
\* a response with a non-success status
ReplyError == [kind |-> "response", status |-> 429, text |-> "quota", json |-> Undefined]
\* a 2xx response whose body is JSON
ReplyOk(d) == [kind |-> "response", status |-> 200, text |-> Stringify(d), json |-> d]
\* a 2xx response whose body is not JSON
ReplyBadJson == [kind |-> "response", status |-> 200, text |-> "<html>", json |-> Undefined]

Replies == {ReplyReject, ReplyError, ReplyBadJson} \cup {ReplyOk(d) : d \in UpstreamData}

\* response.ok
Ok(reply) == reply.status \in 200..299

-----------------------------------------------------------------------------
(* The inbound calls *)

\* two calls are in flight or remembered at a time; where Forget is among the
\* actions (CapSpec) a finished call is forgotten and a later call takes its
\* slot, so the number of calls is unbounded
ReqIds == {1, 2}

NoRes == [status |-> 0, body |-> Undefined, chunks |-> <<>>, ended |-> FALSE]

\* res.status(s).json(b)
ResJson(s, b) == [status |-> s, body |-> b, chunks |-> <<>>, ended |-> TRUE]

ErrorBody(msg) == JObj(<<<<"error", JStr(msg)>>>>)

\* pc: the await the call is suspended at.  upstream: the connection that
\* carries the upstream response body, "open" from the arrival of the response
\* until the body has ended, failed or been destroyed.  caller: "gone" once
\* the caller has disconnected.  trace, hashed, seen, seenAge, wrote and
\* outcome record what the call did and do not influence it.
Idle ==
  [route |-> "none", body |-> Undefined, pc |-> "idle", cacheKey |-> "",
   reply |-> NoReply, res |-> NoRes, trace |-> <<>>, hashed |-> Undefined,
   seen |-> NoEntry, seenAge |-> -1, wrote |-> NoEntry, outcome |-> "",
   upstream |-> "none", caller |-> "connected"]

\* the result of a synchronous segment of a handler: the call and the store
Seg(rq, c) == [rq |-> rq, cache |-> c]

\* the catch blocks (server.js:150-153, 212-215)
Caught(rq, msg) ==
  [rq EXCEPT !.pc = "done", !.res = ResJson(500, ErrorBody(msg)),
             !.trace = @ \o <<"respond">>, !.outcome = "exception"]

\* fetch(...) issued, the handler awaits it
IssueFetch(rq) == [rq EXCEPT !.pc = "fetch", !.trace = @ \o <<"fetch">>]

\* the cache lookup of both routes: generateCacheKey, getCached, if (cachedResult)
Lookup(rq, data) ==
  LET key == generateCacheKey(data)
      got == getCached(key)
      found == MapGet(cache, key)
      rq1 == [rq EXCEPT !.cacheKey = key, !.hashed = data, !.seen = found,
                        !.seenAge = IF found = NoEntry THEN -1 ELSE now - found.timestamp,
                        !.trace = @ \o <<"getCached">>]
  IN IF Truthy(got.ret)
       THEN Seg([rq1 EXCEPT !.pc = "done", !.res = ResJson(200, got.ret),
                            !.trace = @ \o <<"respond">>, !.outcome = "cache"],
                got.cache)
       ELSE Seg(IssueFetch(rq1), got.cache)

\* POST /api/vision, up to the await of fetch (server.js:113-136)
visionEntry(e, body) ==
  LET rq == [Idle EXCEPT !.route = "vision", !.body = body, !.trace = <<"credential">>]
  IN IF ~Truthy(JStr(e.GOOGLE_VISION_API_KEY))
       THEN Seg([rq EXCEPT !.pc = "done",
                           !.res = ResJson(500, ErrorBody("Google Vision API key not configured")),
                           !.trace = @ \o <<"respond">>, !.outcome = "config"],
                cache)
       ELSE Lookup(rq, body)

\* the {messages, model} object the chat route hashes (server.js:167-170, 204-207)
ChatKeyData(body) ==
  JObj(<<<<"messages", Prop(body, "messages")>>, <<"model", Prop(body, "model")>>>>)

\* mutant: the cache is consulted before the credential is checked
openaiEntry_lookupFirst(e, body) ==
  LET rq == [Idle EXCEPT !.route = "openai", !.body = body, !.trace = <<"credential">>]
      s == Lookup(rq, ChatKeyData(body))
  IN IF s.rq.pc = "done" THEN s
     ELSE IF ~Truthy(JStr(e.OPENAI_API_KEY))
       THEN Seg([rq EXCEPT !.pc = "done",
                           !.res = ResJson(500, ErrorBody("OpenAI API key not configured")),
                           !.trace = @ \o <<"respond">>, !.outcome = "config"],
                s.cache)
       ELSE s

\* mutant: the chat route tests the other route's credential
openaiEntry_wrongKey(e, body) ==
  LET rq == [Idle EXCEPT !.route = "openai", !.body = body, !.trace = <<"credential">>]
  IN IF ~Truthy(JStr(e.GOOGLE_VISION_API_KEY))
       THEN Seg([rq EXCEPT !.pc = "done",
                           !.res = ResJson(500, ErrorBody("OpenAI API key not configured")),
                           !.trace = @ \o <<"respond">>, !.outcome = "config"],
                cache)
       ELSE IF ~Truthy(Prop(body, "stream"))
         THEN Lookup(rq, ChatKeyData(body))
         ELSE Seg(IssueFetch(rq), cache)

\* mutant: the chat route consults the cache whatever the streaming flag
openaiEntry_alwaysLookup(e, body) ==
  LET rq == [Idle EXCEPT !.route = "openai", !.body = body, !.trace = <<"credential">>]
  IN IF ~Truthy(JStr(e.OPENAI_API_KEY))
       THEN Seg([rq EXCEPT !.pc = "done",
                           !.res = ResJson(500, ErrorBody("OpenAI API key not configured")),
                           !.trace = @ \o <<"respond">>, !.outcome = "config"],
                cache)
       ELSE Lookup(rq, ChatKeyData(body))

\* POST /api/openai, up to the await of fetch (server.js:157-185)
openaiEntry(e, body) ==
  LET rq == [Idle EXCEPT !.route = "openai", !.body = body, !.trace = <<"credential">>]
  IN IF ~Truthy(JStr(e.OPENAI_API_KEY))
       THEN Seg([rq EXCEPT !.pc = "done",
                           !.res = ResJson(500, ErrorBody("OpenAI API key not configured")),
                           !.trace = @ \o <<"respond">>, !.outcome = "config"],
                cache)
       ELSE IF ~Truthy(Prop(body, "stream"))
         THEN Lookup(rq, ChatKeyData(body))
         ELSE Seg(IssueFetch(rq), cache)

\* mutant: the streaming flag is tested before response.ok
afterFetch_streamFirst(rq, reply) ==
  LET rq1 == [rq EXCEPT !.reply = reply,
                         !.upstream = IF reply.kind = "reject" THEN "none" ELSE "open"]
  IN IF reply.kind = "reject" THEN Caught(rq1, reply.text)
     ELSE IF rq.route = "openai" /\ Truthy(Prop(rq.body, "stream"))
       THEN [rq1 EXCEPT !.pc = "relay", !.res.status = 200,
                        !.trace = @ \o <<"respond">>, !.outcome = "stream"]
     ELSE IF ~Ok(reply) THEN [rq1 EXCEPT !.pc = "text"]
     ELSE [rq1 EXCEPT !.pc = "json"]

\* the URL a route fetches (server.js:130, 178)
RequestUrl(route, e) ==
  IF route = "vision"
    THEN "https://vision.googleapis.com/v1/images:annotate?key=" \o e.GOOGLE_VISION_API_KEY
    ELSE "https://api.openai.com/v1/chat/completions"

\* the message of the error node-fetch rejects with when the request fails
FetchErrorMessage(url, why) == "request to " \o url \o " failed, reason: " \o why

\* what await fetch(...) yields to the handler: the response, or a rejection
\* whose message names the URL requested
Settled(route, e, reply) ==
  IF reply.kind = "reject"
    THEN [reply EXCEPT !.text = FetchErrorMessage(RequestUrl(route, e), reply.text)]
    ELSE reply

\* GET /test (server.js:101-110)
testRoute(e) ==
  ResJson(200, JObj(<<<<"status", JStr("Server is working!")>>,
                      <<"timestamp", JNum(now)>>,
                      <<"env", JObj(<<<<"hasGoogleKey", JBool(Truthy(JStr(e.GOOGLE_VISION_API_KEY)))>>,
                                      <<"hasOpenAIKey", JBool(Truthy(JStr(e.OPENAI_API_KEY)))>>>>)>>>>))

\* either route, from the resolution of fetch to the next await
\* (server.js:138-144, 187-201)
afterFetch(rq, reply) ==
  LET rq1 == [rq EXCEPT !.reply = reply,
                         !.upstream = IF reply.kind = "reject" THEN "none" ELSE "open"]
  IN IF reply.kind = "reject" THEN Caught(rq1, reply.text)
     ELSE IF ~Ok(reply) THEN [rq1 EXCEPT !.pc = "text"]
     ELSE IF rq.route = "openai" /\ Truthy(Prop(rq.body, "stream"))
       THEN [rq1 EXCEPT !.pc = "relay", !.res.status = 200,
                        !.trace = @ \o <<"respond">>, !.outcome = "stream"]
     ELSE [rq1 EXCEPT !.pc = "json"]

\* mutant: the error text of a failed upstream call is stored under the
\* call's fingerprint
afterText_cachesError(rq) ==
  LET key == IF rq.route = "vision" THEN rq.cacheKey
             ELSE generateCacheKey(ChatKeyData(rq.body))
  IN Seg([rq EXCEPT !.pc = "done", !.upstream = "closed",
                    !.res = ResJson(rq.reply.status, ErrorBody(rq.reply.text)),
                    !.trace = @ \o <<"respond">>, !.outcome = "upstreamError"],
         setCached(key, ErrorBody(rq.reply.text)))

\* either route, after await response.text() (server.js:139-141, 188-190)
afterText(rq) ==
  Seg([rq EXCEPT !.pc = "done", !.upstream = "closed",
                 !.res = ResJson(rq.reply.status, ErrorBody(rq.reply.text)),
                 !.trace = @ \o <<"respond">>, !.outcome = "upstreamError"],
      cache)

\* mutant: the response is sent before the cache write
afterJson_respondFirst(rq) ==
  IF rq.reply.json = Undefined
    THEN Seg(Caught([rq EXCEPT !.upstream = "closed"], "invalid json response body"),
             cache)
    ELSE LET data == rq.reply.json
             key == IF rq.route = "vision" THEN rq.cacheKey
                    ELSE generateCacheKey(ChatKeyData(rq.body))
             c2 == setCached(key, data)
         IN Seg([rq EXCEPT !.pc = "done", !.upstream = "closed",
                           !.res = ResJson(200, data),
                           !.wrote = [key |-> key, data |-> data, timestamp |-> now],
                           !.trace = @ \o <<"respond", "setCached">>,
                           !.outcome = "upstream"],
                c2)

\* either route, after await response.json() (server.js:144-149, 201-210)
afterJson(rq) ==
  IF rq.reply.json = Undefined
    THEN Seg(Caught([rq EXCEPT !.upstream = "closed"], "invalid json response body"),
             cache)
    ELSE LET data == rq.reply.json
             key == IF rq.route = "vision" THEN rq.cacheKey
                    ELSE generateCacheKey(ChatKeyData(rq.body))
             c2 == setCached(key, data)
         IN Seg([rq EXCEPT !.pc = "done", !.upstream = "closed",
                           !.res = ResJson(200, data),
                           !.wrote = [key |-> key, data |-> data, timestamp |-> now],
                           !.trace = @ \o <<"setCached", "respond">>,
                           !.outcome = "upstream"],
                c2)

-----------------------------------------------------------------------------
(* Actions *)

\* calls arrive one at a time and are numbered in arrival order
NextArrival(r) ==
  /\ reqs[r].pc = "idle"
  /\ \A q \in ReqIds : q < r => reqs[q].pc # "idle"

VisionRequest(r, body) ==
  /\ NextArrival(r)
  /\ LET s == visionEntry(env, body)
     IN reqs' = [reqs EXCEPT ![r] = s.rq] /\ cache' = s.cache
  /\ UNCHANGED <<env, now, hist, client>>

OpenAIRequest(r, body) ==
  /\ NextArrival(r)
  /\ LET s == openaiEntry(env, body)
     IN reqs' = [reqs EXCEPT ![r] = s.rq] /\ cache' = s.cache
  /\ UNCHANGED <<env, now, hist, client>>

FetchSettles(r, reply) ==
  /\ reqs[r].pc = "fetch"
  /\ reqs' = [reqs EXCEPT ![r] = afterFetch(reqs[r], Settled(reqs[r].route, env, reply))]
  /\ UNCHANGED <<env, cache, now, hist, client>>

TextRead(r) ==
  /\ reqs[r].pc = "text"
  /\ LET s == afterText(reqs[r])
     IN reqs' = [reqs EXCEPT ![r] = s.rq] /\ cache' = s.cache
  /\ UNCHANGED <<env, now, hist, client>>

JsonRead(r) ==
  /\ reqs[r].pc = "json"
  /\ LET s == afterJson(reqs[r])
     IN reqs' = [reqs EXCEPT ![r] = s.rq] /\ cache' = s.cache
  /\ UNCHANGED <<env, now, hist, client>>

\* mutant: the chunks are written to res last first
RelayChunk_reversed(r) ==
  /\ reqs[r].pc = "relay"
  /\ Len(reqs[r].res.chunks) < Len(StreamChunks)
  /\ reqs' = [reqs EXCEPT ![r].res.chunks =
                 Append(@, StreamChunks[Len(StreamChunks) - Len(reqs[r].res.chunks)])]
  /\ UNCHANGED <<env, cache, now, hist, client>>

\* response.body.pipe(res): one chunk of the upstream body written to res
RelayChunk(r) ==
  /\ reqs[r].pc = "relay"
  /\ Len(reqs[r].res.chunks) < Len(StreamChunks)
  /\ reqs' = [reqs EXCEPT ![r].res.chunks =
                 Append(@, StreamChunks[Len(reqs[r].res.chunks) + 1])]
  /\ UNCHANGED <<env, cache, now, hist, client>>

\* the upstream body ends and pipe ends res
RelayEnd(r) ==
  /\ reqs[r].pc = "relay"
  /\ Len(reqs[r].res.chunks) = Len(StreamChunks)
  /\ reqs' = [reqs EXCEPT ![r].pc = "done", ![r].res.ended = TRUE,
                          ![r].upstream = "closed"]
  /\ UNCHANGED <<env, cache, now, hist, client>>

\* the upstream body fails before its end: response.body emits 'error'.  pipe
\* has no handler for it and res is neither ended nor destroyed.
UpstreamBodyError(r) ==
  /\ reqs[r].pc = "relay"
  /\ reqs' = [reqs EXCEPT ![r].pc = "stalled", ![r].upstream = "closed"]
  /\ UNCHANGED <<env, cache, now, hist, client>>

\* the caller disconnects during the relay: res emits 'close', on which pipe
\* unpipes response.body; the body is left paused, not destroyed.
CallerDisconnects(r) ==
  /\ reqs[r].pc = "relay"
  /\ reqs' = [reqs EXCEPT ![r].pc = "unpiped", ![r].caller = "gone"]
  /\ UNCHANGED <<env, cache, now, hist, client>>

\* time passes
Tick ==
  /\ now < MaxTime
  /\ now' = now + 1
  /\ UNCHANGED <<env, cache, reqs, hist, client>>

\* a finished call is forgotten and its slot is free for the next arrival
Forget(r) ==
  /\ reqs[r].pc = "done"
  /\ reqs' = [reqs EXCEPT ![r] = Idle]
  /\ UNCHANGED <<env, cache, now, hist, client>>

\* no streamed response is being read
NoClient == [pc |-> "off", rest |-> <<>>, chunks |-> <<>>, cuts |-> 0,
             full |-> "", sent |-> <<>>]

Init ==
  /\ env \in [GOOGLE_VISION_API_KEY : Credentials, OPENAI_API_KEY : Credentials]
  /\ cache = <<>>
  /\ now = 0
  /\ reqs = [r \in ReqIds |-> Idle]
  /\ hist = <<>>
  /\ client = NoClient

\* the steps of the calls in flight
Continue ==
  \/ \E r \in ReqIds, reply \in Replies : FetchSettles(r, reply)
  \/ \E r \in ReqIds : TextRead(r)
  \/ \E r \in ReqIds : JsonRead(r)
  \/ \E r \in ReqIds : RelayChunk(r)
  \/ \E r \in ReqIds : RelayEnd(r)
  \/ \E r \in ReqIds : UpstreamBodyError(r)
  \/ \E r \in ReqIds : CallerDisconnects(r)

Next ==
  \/ \E r \in ReqIds, body \in VisionBodies : VisionRequest(r, body)
  \/ \E r \in ReqIds, body \in OpenAIBodies : OpenAIRequest(r, body)
  \/ Continue
  \/ Tick

\* two calls, every body and every upstream reply
Spec == Init /\ [][Next]_vars

\* the steps of call r that its own awaits are waiting for
Progress(r) ==
  \/ \E reply \in Replies : FetchSettles(r, reply)
  \/ TextRead(r)
  \/ JsonRead(r)
  \/ RelayChunk(r)
  \/ RelayEnd(r)
  \/ UpstreamBodyError(r)

\* Spec where every upstream call returns or fails, every body that is read
\* is delivered, and every relayed body ends or fails
LiveSpec == Spec /\ \A r \in ReqIds : WF_vars(Progress(r))

-----------------------------------------------------------------------------
(* The store under load: an unbounded number of calls, two at a time, with  *)
(* MAX_CACHE_SIZE + 1 distinct fingerprints among them.                     *)

CapVisionBodies == {BodyImage, BodyTok1}
CapOpenAIBodies == {BodyBare, BodySwapped}
CapReplies == {ReplyError, ReplyOk(Data1)}

CapNext ==
  \/ \E r \in ReqIds, body \in CapVisionBodies : VisionRequest(r, body)
  \/ \E r \in ReqIds, body \in CapOpenAIBodies : OpenAIRequest(r, body)
  \/ \E r \in ReqIds, reply \in CapReplies : FetchSettles(r, reply)
  \/ \E r \in ReqIds : TextRead(r)
  \/ \E r \in ReqIds : JsonRead(r)
  \/ \E r \in ReqIds : Forget(r)
  \/ (now < CACHE_TTL /\ Tick)

CapInit ==
  /\ Init
  /\ env = [GOOGLE_VISION_API_KEY |-> "secret", OPENAI_API_KEY |-> "secret"]

CapSpec == CapInit /\ [][CapNext]_vars

-----------------------------------------------------------------------------
(* The store called directly: getCached and setCached applied to keys and   *)
(* values drawn from small sets, at most MaxOps calls.  hist records each   *)
(* call with the store it found.  The store treats keys and values as      *)
(* opaque and reads only differences of now: the keys are taken into use   *)
(* in one fixed order, only the first key is given both values, and time   *)
(* passes between the first call and the last.                             *)

StoreKeyIds == 1..(MAX_CACHE_SIZE + 1)
StoreKeys == [i \in StoreKeyIds |-> generateCacheKey(JObj(<<<<"id", JNum(i)>>>>))]
StoreKey(i) == StoreKeys[i]
StoreValues == {Data1, JNull}

KeysUsed == Cardinality({hist[n].key : n \in 1..Len(hist)})

StoreGet(i) ==
  /\ Len(hist) < MaxOps
  /\ i <= KeysUsed + 1
  /\ LET got == getCached(StoreKey(i))
     IN /\ cache' = got.cache
        /\ hist' = Append(hist, [op |-> "get", key |-> StoreKey(i), data |-> Undefined,
                                 ret |-> got.ret, pre |-> cache, at |-> now])
  /\ UNCHANGED <<env, now, reqs, client>>

StoreSet(i, d) ==
  /\ Len(hist) < MaxOps
  /\ i <= KeysUsed + 1
  /\ cache' = setCached(StoreKey(i), d)
  /\ hist' = Append(hist, [op |-> "set", key |-> StoreKey(i), data |-> d,
                           ret |-> Undefined, pre |-> cache, at |-> now])
  /\ UNCHANGED <<env, now, reqs, client>>

StoreNext ==
  \/ \E i \in StoreKeyIds : StoreGet(i)
  \/ \E i \in StoreKeyIds, d \in StoreValues : (i > 1 => d = Data1) /\ StoreSet(i, d)
  \/ (hist # <<>> /\ Len(hist) < MaxOps /\ Tick)

StoreSpec == CapInit /\ [][StoreNext]_vars

-----------------------------------------------------------------------------
(* Properties of the store, over the direct calls of StoreSpec *)

Ops == 1..Len(hist)

\* the latest call.  hist only grows, so every call is the latest call of the
\* state it leads to, and a property of each call is checked on the latest.
Latest == {Len(hist)} \ {0}

\* the store after the n-th call
PostOf(n) == IF n < Len(hist) THEN hist[n + 1].pre ELSE cache

KeysOf(c) == {c[i].key : i \in 1..Len(c)}

\* the entry the n-th call found under its key
FoundBy(n) == MapGet(hist[n].pre, hist[n].key)

\* the n-th call is a getCached that found an entry younger than CACHE_TTL
IsHit(n) ==
  /\ hist[n].op = "get"
  /\ FoundBy(n) # NoEntry
  /\ hist[n].at - FoundBy(n).timestamp < CACHE_TTL

\* the n-th call is the getCached(k) that follows the m-th call, a
\* setCached(k, v), with no setCached in between and less than CACHE_TTL elapsed
ReadsBack(m, n) ==
  /\ m < n
  /\ hist[m].op = "set"
  /\ hist[n].op = "get"
  /\ hist[n].key = hist[m].key
  /\ \A j \in Ops : m < j /\ j < n => hist[j].op # "set"
  /\ hist[n].at - hist[m].at < CACHE_TTL

\* C2: setCached(k, v) followed by getCached(k) with less than CACHE_TTL
\* elapsed and no setCached in between returns v, whatever the store held
C2_PutThenGet ==
  \A m \in Ops, n \in Latest : ReadsBack(m, n) => hist[n].ret = hist[m].data

\* C2 witness: the put found the store at capacity with k already in it, and
\* the get returned the value put
C2_Witness ==
  \E m, n \in Ops :
    /\ ReadsBack(m, n)
    /\ Len(hist[m].pre) = MAX_CACHE_SIZE
    /\ HasKey(hist[m].pre, hist[m].key)
    /\ hist[n].ret = hist[m].data
    /\ hist[m].data = Data1

\* C3: getCached(k) on an entry of age CACHE_TTL or more returns absent (null)
\* and leaves the store without an entry for k
C3_ExpiredIsAbsent ==
  \A n \in Latest :
    (/\ hist[n].op = "get"
     /\ FoundBy(n) # NoEntry
     /\ hist[n].at - FoundBy(n).timestamp >= CACHE_TTL)
    => /\ hist[n].ret = JNull
       /\ ~HasKey(PostOf(n), hist[n].key)

\* C3 witness: a getCached found an entry holding a value, of age exactly
\* CACHE_TTL
C3_Witness ==
  \E n \in Ops :
    /\ hist[n].op = "get"
    /\ FoundBy(n) # NoEntry
    /\ FoundBy(n).data = Data1
    /\ hist[n].at - FoundBy(n).timestamp = CACHE_TTL

\* the first MAX_CACHE_SIZE + 1 calls are setCached calls with distinct keys
FillsPastCapacity ==
  /\ Len(hist) >= MAX_CACHE_SIZE + 1
  /\ \A n \in 1..(MAX_CACHE_SIZE + 1) : hist[n].op = "set"
  /\ \A m, n \in 1..(MAX_CACHE_SIZE + 1) : m # n => hist[m].key # hist[n].key

\* C5: from the empty store, MAX_CACHE_SIZE + 1 puts of distinct keys leave
\* exactly MAX_CACHE_SIZE entries: the first key gone, every later key
\* present with its value
C5_OverflowDropsFirst ==
  FillsPastCapacity =>
    LET c == PostOf(MAX_CACHE_SIZE + 1)
    IN /\ Len(c) = MAX_CACHE_SIZE
       /\ ~HasKey(c, hist[1].key)
       /\ \A n \in 2..(MAX_CACHE_SIZE + 1) :
            /\ HasKey(c, hist[n].key)
            /\ MapGet(c, hist[n].key).data = hist[n].data

\* C5 witness: the store has just been filled past its capacity
C5_Witness == FillsPastCapacity /\ Len(hist) = MAX_CACHE_SIZE + 1

\* the n-th call is a setCached that found the store full
Evicts(n) == hist[n].op = "set" /\ Len(hist[n].pre) >= MAX_CACHE_SIZE

\* the key whose entry the evicting n-th call removed: the put key itself when
\* no other key left the store, else the key that is missing afterwards
Removed(n) ==
  IF KeysOf(hist[n].pre) \subseteq KeysOf(PostOf(n))
    THEN {hist[n].key} \cap KeysOf(hist[n].pre)
    ELSE KeysOf(hist[n].pre) \ KeysOf(PostOf(n))

\* the m-th call inserted an entry for k: a put of k that found no entry for
\* k, or that removed k's own entry first
Inserts(m, k) ==
  /\ hist[m].op = "set"
  /\ hist[m].key = k
  /\ \/ ~HasKey(hist[m].pre, k)
     \/ Evicts(m) /\ Removed(m) = {k}

\* the call that inserted the entry k has before the n-th call
InsertedAt(k, n) ==
  CHOOSE m \in 0..(n - 1) :
    /\ m > 0 => Inserts(m, k)
    /\ \A j \in (m + 1)..(n - 1) : ~Inserts(j, k)

\* C6: an evicting setCached removes exactly the entry inserted earliest among
\* those present, and a getCached that returns a stored value leaves the
\* store, and so the next entry to be evicted, unchanged
C6_EvictsOldestInserted ==
  /\ \A n \in Latest : Evicts(n) =>
       \E k \in KeysOf(hist[n].pre) :
         /\ Removed(n) = {k}
         /\ \A j \in KeysOf(hist[n].pre) \ {k} :
              InsertedAt(k, n) < InsertedAt(j, n)
  /\ \A n \in Latest : IsHit(n) => PostOf(n) = hist[n].pre

\* C6 witness: the oldest entry was read successfully after the others were
\* inserted, and the next put evicted it all the same
C6_Witness ==
  \E g, n \in Ops :
    /\ g < n
    /\ IsHit(g)
    /\ Evicts(n)
    /\ Removed(n) = {hist[g].key}
    /\ \A j \in KeysOf(hist[g].pre) \ {hist[g].key} :
         InsertedAt(hist[g].key, g) < InsertedAt(j, g)
    /\ Len(hist[g].pre) = MAX_CACHE_SIZE

\* the entries of the store the n-th call found, less the one a setCached
\* that finds the store full removes
Survivors(n) ==
  IF Len(hist[n].pre) >= MAX_CACHE_SIZE THEN Tail(hist[n].pre) ELSE hist[n].pre

\* C20: a setCached that finds MAX_CACHE_SIZE entries removes exactly one, the
\* one inserted earliest, and one that finds fewer removes none, whether or not
\* its key is in the store: every other entry is left as it was and in its
\* place, and the key put holds the new value, in its old place if its entry
\* survived and last if not
C20_EvictsExactlyOneWhenFull ==
  \A n \in Latest : hist[n].op = "set" =>
    LET k == hist[n].key
        pre == hist[n].pre
        post == PostOf(n)
        kept == Survivors(n)
    IN /\ Len(pre) >= MAX_CACHE_SIZE =>
            /\ Len(kept) = Len(pre) - 1
            /\ \A j \in KeysOf(kept) : InsertedAt(pre[1].key, n) < InsertedAt(j, n)
       /\ Len(pre) < MAX_CACHE_SIZE => kept = pre
       /\ MapDelete(post, k) = MapDelete(kept, k)
       /\ MapGet(post, k) = [key |-> k, data |-> hist[n].data, timestamp |-> hist[n].at]
       /\ Len(post) = Len(kept) + (IF HasKey(kept, k) THEN 0 ELSE 1)
       /\ \A i \in 1..Len(kept) : kept[i].key = k => post[i].key = k

\* C20 witness: a put of a key that was in the full store, and not its oldest,
\* removed the oldest entry and left the store one short of full
C20_Witness ==
  \E n \in Ops :
    /\ hist[n].op = "set"
    /\ Len(hist[n].pre) = MAX_CACHE_SIZE
    /\ HasKey(hist[n].pre, hist[n].key)
    /\ hist[n].pre[1].key # hist[n].key
    /\ Len(PostOf(n)) = MAX_CACHE_SIZE - 1
    /\ ~HasKey(PostOf(n), hist[n].pre[1].key)

\* the m-th call is a setCached on a key that was in the store
Overwrites(m) == hist[m].op = "set" /\ HasKey(hist[m].pre, hist[m].key)

\* C21: a setCached on a key that is in the store leaves one entry for the
\* key, the new value stored at the time of the call, and a getCached of the
\* key less than CACHE_TTL after that call returns the new value and keeps
\* the entry, whatever the value and the age of the entry replaced
C21_OverwriteReplaces ==
  /\ \A n \in Latest : Overwrites(n) =>
       /\ Cardinality({i \in 1..Len(PostOf(n)) : PostOf(n)[i].key = hist[n].key}) = 1
       /\ MapGet(PostOf(n), hist[n].key)
            = [key |-> hist[n].key, data |-> hist[n].data, timestamp |-> hist[n].at]
  /\ \A m \in Ops, n \in Latest : (Overwrites(m) /\ ReadsBack(m, n)) =>
       /\ hist[n].ret = hist[m].data
       /\ PostOf(n) = hist[n].pre
       /\ HasKey(PostOf(n), hist[n].key)

\* C21 witness: the entry replaced held another value and was CACHE_TTL old
\* or older, and the get that followed returned the new value
C21_Witness ==
  \E m, n \in Ops :
    /\ Overwrites(m) /\ ReadsBack(m, n)
    /\ MapGet(hist[m].pre, hist[m].key).data = JNull
    /\ hist[m].at - MapGet(hist[m].pre, hist[m].key).timestamp >= CACHE_TTL
    /\ hist[m].data = Data1
    /\ hist[n].ret = Data1

\* C28 as stated: the entry an evicting setCached removes was stored no later
\* than any entry that remains in the store afterwards: eviction order agrees
\* with the order of the entries' timestamps.
C28_EvictionAgreesWithTimestamps ==
  \A n \in Latest : Evicts(n) =>
    \A k \in Removed(n) :
      \A i \in 1..Len(PostOf(n)) :
        MapGet(hist[n].pre, k).timestamp <= PostOf(n)[i].timestamp

\* the entry is CACHE_TTL old or older at time t
ExpiredAt(e, t) == t - e.timestamp >= CACHE_TTL

\* what C22 asks of the direct call o that takes the store from cache to cache'
StoreCallFrame(o) ==
  LET lost == KeysOf(cache) \ KeysOf(cache')
      found == MapGet(cache, o.key)
  IN /\ o.op = "get" =>
          /\ MapDelete(cache', o.key) = MapDelete(cache, o.key)
          /\ IF found # NoEntry /\ ExpiredAt(found, o.at)
               THEN lost = {o.key}
               ELSE cache' = cache
     /\ o.op = "set" =>
          /\ \A j \in lost : Len(cache) >= MAX_CACHE_SIZE /\ j = cache[1].key
          /\ \A i \in 1..Len(cache') :
               cache'[i].key # o.key => \E j \in 1..Len(cache) : cache[j] = cache'[i]

\* C22: a key leaves the store only by a getCached of that key that finds its
\* entry expired or by a setCached that finds the store full with that key
\* its oldest; a getCached changes no other key's entry and, on a valid or
\* absent key, nothing at all; the passing of time removes nothing, so an
\* expired entry that is not looked up stays and takes up capacity
C22_RemovalFrame ==
  [][IF hist' = hist THEN cache' = cache
     ELSE StoreCallFrame(hist'[Len(hist')])]_vars

\* C22 witness: a put found the store full with an expired entry in it that
\* was not the oldest-inserted; it evicted the oldest, an entry still valid,
\* and the expired entry stayed
C22_Witness ==
  \E n \in Ops :
    /\ Evicts(n)
    /\ ~ExpiredAt(hist[n].pre[1], hist[n].at)
    /\ ~HasKey(PostOf(n), hist[n].pre[1].key)
    /\ \E i \in 2..Len(hist[n].pre) :
         /\ ExpiredAt(hist[n].pre[i], hist[n].at)
         /\ \E j \in 1..Len(PostOf(n)) : PostOf(n)[j] = hist[n].pre[i]

-----------------------------------------------------------------------------
(* Properties of the routes *)

\* a and b are equal as JSON values: objects with the same members whatever
\* their order, arrays equal element by element
RECURSIVE LogicalEq(_, _)
LogicalEq(a, b) ==
  IF a.t # b.t THEN FALSE
  ELSE IF a.t = "obj"
    THEN /\ {a.v[i][1] : i \in 1..Len(a.v)} = {b.v[i][1] : i \in 1..Len(b.v)}
         /\ \A i \in 1..Len(a.v) : LogicalEq(a.v[i][2], Prop(b, a.v[i][1]))
  ELSE IF a.t = "arr"
    THEN /\ Len(a.v) = Len(b.v)
         /\ \A i \in 1..Len(a.v) : LogicalEq(a.v[i], b.v[i])
  ELSE a = b

\* the calls that computed a fingerprint
Hashing == {r \in ReqIds : reqs[r].hashed # Undefined}

Unconfigured(r) ==
  \/ reqs[r].route = "vision" /\ ~Truthy(JStr(env.GOOGLE_VISION_API_KEY))
  \/ reqs[r].route = "openai" /\ ~Truthy(JStr(env.OPENAI_API_KEY))

\* the store holds a valid entry under the fingerprint of the call's body
ValidEntryFor(r) ==
  LET key == generateCacheKey(IF reqs[r].route = "vision" THEN reqs[r].body
                              ELSE ChatKeyData(reqs[r].body))
  IN HasKey(cache, key) /\ now - MapGet(cache, key).timestamp < CACHE_TTL

\* C7: a call on a route whose credential is unset ends with status 500 and
\* the configuration error, without a fetch and without getCached or setCached
C7_MissingCredentialShortCircuits ==
  \A r \in ReqIds : Unconfigured(r) =>
    /\ reqs[r].pc = "done"
    /\ reqs[r].res.status = 500
    /\ reqs[r].res.ended
    /\ reqs[r].res.body = ErrorBody(IF reqs[r].route = "vision"
                                      THEN "Google Vision API key not configured"
                                      ELSE "OpenAI API key not configured")
    /\ reqs[r].trace = <<"credential", "respond">>
    /\ reqs[r].cacheKey = ""
    /\ reqs[r].wrote = NoEntry

\* C7 witness: a call was refused for its credential while the store held a
\* valid entry under its fingerprint
C7_Witness ==
  \E r \in ReqIds :
    /\ Unconfigured(r)
    /\ reqs[r].outcome = "config"
    /\ ValidEntryFor(r)

\* C8: in any state and for any body, what a route does with a call does not
\* depend on the other route's credential
C8_OtherCredentialIrrelevant ==
  /\ \A c \in Credentials \ {env.GOOGLE_VISION_API_KEY}, body \in OpenAIBodies :
       openaiEntry([env EXCEPT !.GOOGLE_VISION_API_KEY = c], body)
         = openaiEntry(env, body)
  /\ \A c \in Credentials \ {env.OPENAI_API_KEY}, body \in VisionBodies :
       visionEntry([env EXCEPT !.OPENAI_API_KEY = c], body)
         = visionEntry(env, body)

\* C8 witness: with only the OpenAI credential set, one chat call was answered
\* by upstream and another from the cache
C8_Witness ==
  /\ ~Truthy(JStr(env.GOOGLE_VISION_API_KEY))
  /\ Truthy(JStr(env.OPENAI_API_KEY))
  /\ \E p, q \in ReqIds :
       /\ reqs[p].route = "openai" /\ reqs[p].outcome = "upstream"
       /\ reqs[q].route = "openai" /\ reqs[q].outcome = "cache"

\* call r looked up the entry that call p had written, less than CACHE_TTL
\* after p wrote it
SawFresh(r, p) ==
  /\ p # r
  /\ reqs[p].wrote # NoEntry
  /\ reqs[r].seen = reqs[p].wrote
  /\ reqs[r].seenAge < CACHE_TTL

\* the call was answered with the value v from the cache, without a fetch
ServedFromCache(r, v) ==
  /\ reqs[r].pc = "done"
  /\ reqs[r].outcome = "cache"
  /\ reqs[r].res = ResJson(200, v)
  /\ \A i \in 1..Len(reqs[r].trace) : reqs[r].trace[i] # "fetch"

\* C9 as stated: a vision call whose payload was answered by upstream less
\* than CACHE_TTL ago, the entry still in the store, returns the stored value
\* and makes no upstream call, whatever the value
C9_VisionHitServesStored ==
  \A r, p \in ReqIds :
    (/\ reqs[r].route = "vision"
     /\ reqs[p].route = "vision"
     /\ reqs[p].body = reqs[r].body
     /\ SawFresh(r, p))
    => ServedFromCache(r, reqs[p].wrote.data)

\* the call is a chat call without the streaming flag
Buffered(r) == reqs[r].route = "openai" /\ ~Truthy(Prop(reqs[r].body, "stream"))

\* C10 as stated: a non-streaming chat call that follows, within CACHE_TTL, a
\* successful one with the same messages and model and different other fields
\* has the same fingerprint, makes no upstream call and is answered with the
\* stored response
C10_ChatKeyIgnoresOtherFields ==
  \A r, p \in ReqIds :
    (/\ Buffered(r)
     /\ Buffered(p)
     /\ reqs[p].body # reqs[r].body
     /\ Prop(reqs[p].body, "messages") = Prop(reqs[r].body, "messages")
     /\ Prop(reqs[p].body, "model") = Prop(reqs[r].body, "model")
     /\ SawFresh(r, p))
    => /\ reqs[r].cacheKey = reqs[p].cacheKey
       /\ ServedFromCache(r, reqs[p].wrote.data)

-----------------------------------------------------------------------------
(* Properties of the store under load, over CapSpec *)

\* C4: the store never holds more than MAX_CACHE_SIZE entries
C4_SizeBounded == Len(cache) <= MAX_CACHE_SIZE

\* C4 witness: the store is full and the entry a remembered call wrote has
\* been evicted (no time has passed, so nothing expired)
C4_Witness ==
  /\ now = 0
  /\ Len(cache) = MAX_CACHE_SIZE
  /\ \E r \in ReqIds :
       /\ reqs[r].wrote # NoEntry
       /\ ~HasKey(cache, reqs[r].wrote.key)

-----------------------------------------------------------------------------
(* Properties of the routes: streaming, failures and concurrent calls *)

\* the call is a chat call with the streaming flag set
Streaming(r) == reqs[r].route = "openai" /\ Truthy(Prop(reqs[r].body, "stream"))

\* the number of times the step occurs in the call's trace
Count(r, step) ==
  Cardinality({i \in 1..Len(reqs[r].trace) : reqs[r].trace[i] = step})

\* the calls have the same messages and model
SameChat(p, r) ==
  /\ Prop(reqs[p].body, "messages") = Prop(reqs[r].body, "messages")
  /\ Prop(reqs[p].body, "model") = Prop(reqs[r].body, "model")

\* what C11 asks of a step taken by the streaming call r
StreamingStepBypasses(r) ==
  /\ cache' = cache
  /\ Count(r, "getCached")' = 0
  /\ Count(r, "setCached")' = 0
  /\ reqs'[r].cacheKey = ""
  /\ reqs'[r].wrote = NoEntry
  /\ ~Unconfigured(r)' => Count(r, "fetch")' = 1

\* C11: no step of a streaming chat call reads or writes the store: the store
\* is left as it was, the call makes its one upstream call even with a valid
\* entry under its {messages, model} fingerprint, and a non-streaming call with
\* the same messages and model that arrives after it and finds no entry makes
\* exactly one upstream call too
C11_StreamingBypassesCache ==
  [][/\ \A r \in ReqIds :
          (reqs'[r] # reqs[r] /\ Streaming(r)') => StreamingStepBypasses(r)
     /\ \A p, r \in ReqIds :
          (/\ p < r
           /\ Streaming(p)' /\ ~Unconfigured(p)'
           /\ Buffered(r)' /\ SameChat(p, r)'
           /\ reqs'[r].seen = NoEntry)
          => Count(p, "fetch")' = 1 /\ Count(r, "fetch")' = 1]_vars

\* C11 witness: a streaming call was relayed from upstream although the store
\* held, when it arrived and still, a valid entry written by an earlier
\* non-streaming call with the same messages and model
C11_Witness ==
  \E p, r \in ReqIds :
    /\ p < r
    /\ Buffered(p) /\ reqs[p].outcome = "upstream" /\ reqs[p].wrote.data = Data1
    /\ Streaming(r) /\ reqs[r].pc = "done" /\ reqs[r].outcome = "stream"
    /\ SameChat(p, r)
    /\ ValidEntryFor(r)
    /\ cache = <<reqs[p].wrote>>

\* the call missed the cache and its upstream call returned a non-success status
FailedMiss(p) ==
  /\ reqs[p].outcome = "upstreamError"
  /\ reqs[p].route = "vision" \/ Buffered(p)
  /\ reqs[p].seen = NoEntry

\* the entries of the store under the key
EntriesUnder(key) == {i \in 1..Len(cache) : cache[i].key = key}

\* call r has the route and the body of call p and arrived after it
Retries(r, p) ==
  /\ p < r
  /\ reqs[r].pc # "idle"
  /\ reqs[r].route = reqs[p].route
  /\ reqs[r].body = reqs[p].body

\* C12: after a miss whose upstream call returned a non-success status, the
\* identical request made again is not answered from the cache but makes its
\* own upstream call, two upstream calls in all, and once that call succeeds
\* the store holds under the fingerprint one entry, the successful response
C12_FailureNotCached ==
  \A p, r \in ReqIds :
    (FailedMiss(p) /\ Retries(r, p)) =>
      /\ Count(p, "fetch") = 1
      /\ Count(r, "fetch") = 1
      /\ reqs[p].wrote = NoEntry
      /\ reqs[r].outcome # "cache"
      /\ reqs[r].outcome = "upstream" =>
           /\ Ok(reqs[r].reply)
           /\ Cardinality(EntriesUnder(reqs[r].cacheKey)) = 1
           /\ MapGet(cache, reqs[r].cacheKey).data = reqs[r].reply.json

\* C12 witness: the first call missed and was refused by upstream with 429,
\* the same request made again succeeded and its response is the store's one
\* entry
C12_Witness ==
  \E p, r \in ReqIds :
    /\ FailedMiss(p) /\ Retries(r, p)
    /\ reqs[p].res.status = 429
    /\ reqs[r].outcome = "upstream"
    /\ reqs[r].reply = ReplyOk(Data1)
    /\ cache = <<reqs[r].wrote>>

\* the outcomes that are errors: a missing credential, a non-success upstream
\* status, a rejected fetch or an unparsable body
ErrorOutcomes == {"config", "upstreamError", "exception"}

\* call r stored the entry: a vision or non-streaming chat call whose upstream
\* call returned a success status, the entry's value the parsed body
StoredBy(r, entry) ==
  /\ reqs[r].wrote = entry
  /\ reqs[r].outcome = "upstream"
  /\ reqs[r].route = "vision" \/ Buffered(r)
  /\ Ok(reqs[r].reply)
  /\ entry.data = reqs[r].reply.json
  /\ entry.data \in UpstreamData

\* every entry of the store was stored by a successful call
StoredFromSuccess ==
  \A i \in 1..Len(cache) : \E r \in ReqIds : StoredBy(r, cache[i])

\* every entry of c is, unchanged, an entry of the store
OnlyRemoved(c) ==
  \A i \in 1..Len(c) : \E j \in 1..Len(cache) : c[i] = cache[j]

\* C13: every entry of the store is the parsed body of a success response to
\* a vision call or a non-streaming chat call; the step that ends a call in an
\* error leaves the store as it is, and a call that has not had its success
\* response adds no entry and overwrites none
C13_OnlySuccessStored ==
  [][/\ StoredFromSuccess'
     /\ \A r \in ReqIds :
          (reqs'[r] # reqs[r] /\ reqs'[r].outcome \in ErrorOutcomes) =>
            /\ cache' = cache
            /\ reqs'[r].wrote = NoEntry
            /\ Count(r, "setCached")' = 0
     /\ \A r \in ReqIds :
          (reqs'[r] # reqs[r] /\ reqs'[r].outcome # "upstream") =>
            OnlyRemoved(cache')]_vars

\* C13 witness: a call missed on the stored value null, was refused by
\* upstream, and the entry under its fingerprint is still the one the
\* successful call stored
C13_Witness ==
  \E p, r \in ReqIds :
    /\ p # r
    /\ Len(cache) = 1
    /\ StoredBy(p, cache[1])
    /\ reqs[r].outcome = "upstreamError"
    /\ reqs[r].seen = reqs[p].wrote
    /\ reqs[r].cacheKey = cache[1].key

\* upstream answered the call with a non-success status
Refused(r) == reqs[r].reply.kind = "response" /\ ~Ok(reqs[r].reply)

\* the configuration-error message of the call's route
ConfigMessage(r) ==
  IF reqs[r].route = "vision" THEN "Google Vision API key not configured"
  ELSE "OpenAI API key not configured"

\* C14: on either route and with or without the streaming flag, a call that
\* upstream answered with a non-success status s and body b is answered with
\* nothing but status s and the JSON body {error: b}, and a call on a route
\* whose credential is unset with status 500 and the configuration error
C14_ErrorResponses ==
  \A r \in ReqIds :
    /\ Refused(r) =>
         /\ reqs[r].pc \in {"text", "done"}
         /\ reqs[r].pc = "text" => reqs[r].res = NoRes
         /\ reqs[r].pc = "done" =>
              reqs[r].res = ResJson(reqs[r].reply.status, ErrorBody(reqs[r].reply.text))
    /\ Unconfigured(r) => reqs[r].res = ResJson(500, ErrorBody(ConfigMessage(r)))

\* C14 witness: a vision call and a streaming chat call were both refused by
\* upstream and answered with its status and text
C14_Witness ==
  \E p, r \in ReqIds :
    /\ reqs[p].route = "vision" /\ Refused(p)
    /\ Streaming(r) /\ Refused(r)
    /\ reqs[p].res = ResJson(429, ErrorBody("quota"))
    /\ reqs[r].res = ResJson(429, ErrorBody("quota"))

-----------------------------------------------------------------------------
(* Properties of the streaming relay *)

\* C15 as stated: once the caller has disconnected during a streaming relay
\* the relay forwards no more, the upstream connection is closed, and the
\* call has written no cache entry
C15_DisconnectReleasesUpstream ==
  \A r \in ReqIds : reqs[r].caller = "gone" =>
    /\ reqs[r].pc = "unpiped"
    /\ reqs[r].upstream = "closed"
    /\ reqs[r].wrote = NoEntry

\* a is a prefix of b
IsPrefix(a, b) == Len(a) <= Len(b) /\ \A i \in 1..Len(a) : a[i] = b[i]

\* C16: what a streaming call has delivered to the caller is at every point a
\* prefix of the upstream body, chunk for chunk, and the whole of it once the
\* upstream body has ended; a call that is not relayed delivers no chunks
C16_RelayIsPrefix ==
  \A r \in ReqIds :
    /\ IsPrefix(reqs[r].res.chunks, StreamChunks)
    /\ reqs[r].res.chunks # <<>> => Streaming(r) /\ reqs[r].outcome = "stream"
    /\ (reqs[r].outcome = "stream" /\ reqs[r].res.ended) =>
         reqs[r].res.chunks = StreamChunks

\* C16 witness: the caller has the first chunk and not the second while the
\* upstream body is still open
C16_Witness ==
  \E r \in ReqIds :
    /\ reqs[r].pc = "relay"
    /\ reqs[r].upstream = "open"
    /\ reqs[r].res.chunks = <<StreamChunks[1]>>
    /\ ~reqs[r].res.ended

-----------------------------------------------------------------------------
(* Properties of concurrent calls *)

\* two calls computed the same fingerprint and both found the store without
\* an entry under it: neither had written when the other looked
RacingMisses(p, r) ==
  /\ p # r
  /\ reqs[p].cacheKey # ""
  /\ reqs[p].cacheKey = reqs[r].cacheKey
  /\ reqs[p].seen = NoEntry
  /\ reqs[r].seen = NoEntry

\* C17: two calls that both missed on the same fingerprint each make their
\* own upstream call, and when the second of them stores its response the
\* store holds one entry under the fingerprint, that response, in place of
\* the one the first had stored
C17_LastWriterWins ==
  [][\A p, r \in ReqIds : RacingMisses(p, r)' =>
       /\ Count(p, "fetch")' = 1
       /\ Count(r, "fetch")' = 1
       /\ (/\ reqs[p].outcome = "upstream"
           /\ reqs[r].outcome # "upstream"
           /\ reqs'[r].outcome = "upstream") =>
            /\ Cardinality(EntriesUnder(reqs[r].cacheKey))' = 1
            /\ MapGet(cache', reqs[r].cacheKey) = reqs'[r].wrote
            /\ reqs'[r].wrote.data = reqs[r].reply.json]_vars

\* C17 witness: both calls missed and were answered differently by upstream;
\* the call that arrived first stored last and its response is the entry
C17_Witness ==
  \E p, r \in ReqIds :
    /\ p < r
    /\ RacingMisses(p, r)
    /\ reqs[p].outcome = "upstream" /\ reqs[r].outcome = "upstream"
    /\ reqs[p].reply.json = Data1 /\ reqs[r].reply.json = Data2
    /\ cache = <<reqs[p].wrote>>
    /\ cache[1].data = Data1

-----------------------------------------------------------------------------
(* The order of the steps of a call *)

\* the call has ended: its response is complete, or closed by the caller
Terminal(r) == reqs[r].pc \in {"done", "unpiped"}

\* the steps of a call that ended with the outcome, in order
StepsOf(r) ==
  CASE reqs[r].outcome = "config" -> <<"credential", "respond">>
    [] reqs[r].outcome = "cache" -> <<"credential", "getCached", "respond">>
    [] reqs[r].outcome = "upstream" ->
         <<"credential", "getCached", "fetch", "setCached", "respond">>
    [] reqs[r].outcome = "stream" -> <<"credential", "fetch", "respond">>
    [] reqs[r].outcome \in {"upstreamError", "exception"} ->
         IF Streaming(r) THEN <<"credential", "fetch", "respond">>
         ELSE <<"credential", "getCached", "fetch", "respond">>
    [] OTHER -> <<>>

\* the step orders a call can be following while it is in flight
StepsAhead(r) ==
  IF Streaming(r) THEN {<<"credential", "fetch", "respond">>}
  ELSE {<<"credential", "getCached", "fetch", "respond">>,
        <<"credential", "getCached", "fetch", "setCached", "respond">>}

\* C18: a call's steps are, in order, the credential check, the cache lookup
\* unless it streams, the upstream call, in buffered mode the cache write,
\* and the response; it ends with one outcome and one response started; a
\* call refused by upstream is not relayed and writes no cache entry
C18_StepOrder ==
  \A r \in ReqIds : reqs[r].pc # "idle" =>
    /\ Count(r, "respond") <= 1
    /\ Terminal(r) =>
         /\ reqs[r].outcome \in {"config", "cache", "upstream", "upstreamError",
                                  "exception", "stream"}
         /\ reqs[r].trace = StepsOf(r)
         /\ Count(r, "respond") = 1
    /\ ~Terminal(r) =>
         /\ \E t \in StepsAhead(r) : IsPrefix(reqs[r].trace, t)
         /\ reqs[r].pc \notin {"relay", "stalled"} =>
              reqs[r].outcome = "" /\ reqs[r].res = NoRes
    /\ Refused(r) =>
         /\ reqs[r].res.chunks = <<>>
         /\ reqs[r].wrote = NoEntry
         /\ reqs[r].pc # "relay"

\* C18 witness: one call went through every step of the buffered path and
\* another, streaming, was ended by an upstream error
C18_Witness ==
  \E p, r \in ReqIds :
    /\ Terminal(p) /\ reqs[p].outcome = "upstream"
    /\ reqs[p].trace = <<"credential", "getCached", "fetch", "setCached", "respond">>
    /\ Terminal(r) /\ Streaming(r) /\ reqs[r].outcome = "upstreamError"
    /\ reqs[r].trace = <<"credential", "fetch", "respond">>

-----------------------------------------------------------------------------
(* Termination *)

\* C19 as stated: every call that has arrived reaches an end, its response
\* completed or closed, given that its upstream call returns or fails and a
\* relayed upstream body ends or fails
C19_EveryCallEnds ==
  \A r \in ReqIds : (reqs[r].pc # "idle") ~> Terminal(r)

-----------------------------------------------------------------------------
(* Upstream calls per inbound call *)

\* the lookup of call r found an entry younger than CACHE_TTL: a cache hit
LookupHit(r) ==
  /\ reqs[r].seen # NoEntry
  /\ reqs[r].seenAge < CACHE_TTL

\* C23 as stated: a call makes at most one upstream call whatever its
\* outcome, and none when its lookup hit or its credential is unset
C23_NoAutomaticRetry ==
  \A r \in ReqIds :
    /\ Count(r, "fetch") <= 1
    /\ Unconfigured(r) => Count(r, "fetch") = 0
    /\ LookupHit(r) => Count(r, "fetch") = 0

-----------------------------------------------------------------------------
(* The extension's reader of a streamed response (part_000:447-489,        *)
(* 572-612).  Text is a sequence of characters.                            *)

\* the most cuts the transport makes in a response body
MaxCuts == 1

\* 'data: '
DataPrefix ==
  <<"d", "a", "t", "a", ":", " ">>

\* '[DONE]'
DoneToken ==
  <<"[", "D", "O", "N", "E", "]">>

\* the text of a frame up to its content fragment, and after it
FrameOpen ==
  <<"{", "\"", "c", "h", "o", "i", "c", "e", "s", "\"", ":", "[", "{",
    "\"", "d", "e", "l", "t", "a", "\"", ":", "{", "\"", "c", "o", "n",
    "t", "e", "n", "t", "\"", ":", "\"">>

FrameClose ==
  <<"\"", "}", "}", "]", "}">>

\* the content fragments, one character each
Fragments == {"a", "b"}

\* a frame as upstream writes it, and the value it parses to
FrameText(c) == FrameOpen \o <<c>> \o FrameClose

FrameJson(c) ==
  JObj(<<<<"choices",
           JArr(<<JObj(<<<<"delta", JObj(<<<<"content", JStr(c)>>>>)>>>>)>>)>>>>)

\* a payload that is not JSON
BadPayload ==
  <<"{", "o", "o", "p", "s">>

\* the events upstream sends
Content(c) == [kind |-> "content", c |-> c]
Malformed == [kind |-> "bad", c |-> ""]
DoneEvent == [kind |-> "done", c |-> ""]

\* an event on the wire: 'data: ', its payload and an empty line
EventText(e) ==
  DataPrefix
  \o (CASE e.kind = "content" -> FrameText(e.c)
        [] e.kind = "bad" -> BadPayload
        [] e.kind = "done" -> DoneToken)
  \o <<"\n", "\n">>

RECURSIVE StreamText(_, _)
StreamText(es, i) ==
  IF i > Len(es) THEN <<>> ELSE EventText(es[i]) \o StreamText(es, i + 1)

\* the response bodies read
Streams ==
  {<<Content("a"), DoneEvent>>,
   <<Content("a"), Content("b"), DoneEvent>>,
   <<Content("b"), Content("a"), DoneEvent>>,
   <<Malformed, Content("a"), DoneEvent>>,
   <<Content("a"), Malformed, Content("b"), DoneEvent>>,
   <<Content("a"), DoneEvent, Content("b")>>}

\* chunk.split('\n'): the pieces between the newlines, one more than there
\* are newlines, the empty pieces included
SplitLines(chunk) ==
  LET newlines == {i \in 1..Len(chunk) : chunk[i] = "\n"}
      starts == {1} \cup {i + 1 : i \in newlines}
      StartOf(j) == CHOOSE s \in starts : Cardinality({t \in starts : t < s}) = j - 1
      EndOf(s) == IF \E i \in newlines : i >= s
                    THEN (CHOOSE i \in newlines :
                            i >= s /\ \A k \in newlines : k >= s => i <= k) - 1
                    ELSE Len(chunk)
  IN [j \in 1..Cardinality(starts) |-> SubSeq(chunk, StartOf(j), EndOf(StartOf(j)))]

\* line.startsWith(prefix)
StartsWith(line, prefix) ==
  Len(line) >= Len(prefix) /\ SubSeq(line, 1, Len(prefix)) = prefix

\* line.slice(n)
Slice(line, n) == SubSeq(line, n + 1, Len(line))

\* JSON.parse(data), ok = FALSE for a SyntaxError.  The payloads that reach it
\* are the frames, BadPayload and pieces of these and of DoneToken cut off by
\* the end of a chunk; of these only a whole frame is JSON.
JSONParse(data) ==
  IF \E c \in Fragments : data = FrameText(c)
    THEN [ok |-> TRUE, v |-> FrameJson(CHOOSE c \in Fragments : data = FrameText(c))]
    ELSE [ok |-> FALSE, v |-> Undefined]

\* parsed.choices?.[0]?.delta?.content
DeltaContent(parsed) ==
  LET choices == Prop(parsed, "choices")
      first == IF choices.t = "arr" /\ Len(choices.v) >= 1 THEN choices.v[1]
               ELSE Undefined
  IN Prop(Prop(first, "delta"), "content")

RECURSIVE ProcessLines(_, _, _)

\* mutant: a line that does not parse ends the reading
ProcessLines_stopsOnInvalid(lines, i, st) ==
  IF i > Len(lines) THEN st
  ELSE IF ~StartsWith(lines[i], DataPrefix) THEN ProcessLines(lines, i + 1, st)
  ELSE IF Slice(lines[i], 6) = DoneToken THEN [st EXCEPT !.returned = TRUE]
  ELSE IF ~JSONParse(Slice(lines[i], 6)).ok THEN [st EXCEPT !.returned = TRUE]
  ELSE LET content == DeltaContent(JSONParse(Slice(lines[i], 6)).v)
       IN IF Truthy(content)
            THEN ProcessLines(lines, i + 1, [st EXCEPT !.full = @ \o content.v])
            ELSE ProcessLines(lines, i + 1, st)

\* for (const line of lines) { ... } from the i-th line on (part_000:462-486,
\* 585-608): st.full is the text accumulated, st.returned whether '[DONE]'
\* made the function return
ProcessLines(lines, i, st) ==
  IF i > Len(lines) THEN st
  ELSE IF ~StartsWith(lines[i], DataPrefix) THEN ProcessLines(lines, i + 1, st)
  ELSE IF Slice(lines[i], 6) = DoneToken THEN [st EXCEPT !.returned = TRUE]
  ELSE IF ~JSONParse(Slice(lines[i], 6)).ok THEN ProcessLines(lines, i + 1, st)
  ELSE LET content == DeltaContent(JSONParse(Slice(lines[i], 6)).v)
       IN IF Truthy(content)
            THEN ProcessLines(lines, i + 1, [st EXCEPT !.full = @ \o content.v])
            ELSE ProcessLines(lines, i + 1, st)

\* await reader.read() delivers the next n characters of the body as one
\* chunk (decoder.decode is the identity on these one-byte characters) and
\* the lines of the chunk are processed
ReaderRead(n) ==
  /\ client.pc = "reading"
  /\ n \in 1..Len(client.rest)
  /\ n < Len(client.rest) => client.cuts < MaxCuts
  /\ LET chunk == SubSeq(client.rest, 1, n)
         st == ProcessLines(SplitLines(chunk), 1,
                            [full |-> client.full, returned |-> FALSE])
     IN client' = [client EXCEPT
                     !.pc = IF st.returned THEN "returned" ELSE "reading",
                     !.rest = Slice(client.rest, n),
                     !.chunks = Append(@, chunk),
                     !.cuts = IF n < Len(client.rest) THEN @ + 1 ELSE @,
                     !.full = st.full]
  /\ UNCHANGED <<env, cache, now, reqs, hist>>

\* await reader.read() reports done: the loop is left and the function returns
ReaderDone ==
  /\ client.pc = "reading"
  /\ client.rest = <<>>
  /\ client' = [client EXCEPT !.pc = "ended"]
  /\ UNCHANGED <<env, cache, now, reqs, hist>>

ClientInit ==
  /\ env = [GOOGLE_VISION_API_KEY |-> "secret", OPENAI_API_KEY |-> "secret"]
  /\ cache = <<>>
  /\ now = 0
  /\ reqs = [r \in ReqIds |-> Idle]
  /\ hist = <<>>
  /\ \E es \in Streams :
       client = [pc |-> "reading", rest |-> StreamText(es, 1), chunks |-> <<>>,
                 cuts |-> 0, full |-> "", sent |-> es]

ClientNext ==
  \/ \E n \in 1..Len(client.rest) : ReaderRead(n)
  \/ ReaderDone

\* the reader on each of the response bodies, cut by the transport at most
\* MaxCuts times
ClientSpec == ClientInit /\ [][ClientNext]_vars

-----------------------------------------------------------------------------
(* What the reader was given and what it made of it.                       *)

\* the lines of the chunks delivered so far, in order, from the i-th chunk on
RECURSIVE LinesOf(_, _)
LinesOf(chunks, i) ==
  IF i > Len(chunks) THEN <<>>
  ELSE SplitLines(chunks[i]) \o LinesOf(chunks, i + 1)

\* a line is a 'data: ' line carrying the token, a whole frame, or something
\* that is not JSON
IsDoneLine(line) == line = DataPrefix \o DoneToken

IsFrameLine(line) == \E c \in Fragments : line = DataPrefix \o FrameText(c)

IsInvalidLine(line) ==
  StartsWith(line, DataPrefix) /\ ~IsDoneLine(line) /\ ~IsFrameLine(line)

\* the content fragment a line carries: that of a whole frame, else nothing
FragmentOf(line) ==
  IF IsFrameLine(line)
    THEN CHOOSE c \in Fragments : line = DataPrefix \o FrameText(c)
    ELSE ""

\* the position of the first '[DONE]' line, past the end when there is none
FirstDone(lines) ==
  IF \E i \in 1..Len(lines) : IsDoneLine(lines[i])
    THEN CHOOSE i \in 1..Len(lines) :
           IsDoneLine(lines[i]) /\ \A k \in 1..(i - 1) : ~IsDoneLine(lines[k])
    ELSE Len(lines) + 1

\* the fragments of lines i..n, joined in order
RECURSIVE JoinFragments(_, _, _)
JoinFragments(lines, i, n) ==
  IF i > n THEN "" ELSE FragmentOf(lines[i]) \o JoinFragments(lines, i + 1, n)

\* C24: the accumulated text is, at every moment, the fragments of the whole
\* frames among the lines read before the first '[DONE]' line, joined in
\* order: a 'data: ' line whose payload is not JSON adds nothing, removes
\* nothing, and does not end the reading, which only a '[DONE]' line does.
C24_InvalidLineSkipped ==
  LET lines == LinesOf(client.chunks, 1)
      d == FirstDone(lines)
  IN /\ client.full = JoinFragments(lines, 1, d - 1)
     /\ (client.pc = "returned") <=> (d <= Len(lines))
     /\ client.pc = "ended" => client.rest = <<>>

\* a line that is not JSON was read after one frame and before another, and
\* both frames' fragments were accumulated
C24_Witness ==
  LET lines == LinesOf(client.chunks, 1)
      d == FirstDone(lines)
  IN /\ client.pc = "returned"
     /\ \E i, j, k \in 1..(d - 1) :
          /\ i < j /\ j < k
          /\ IsFrameLine(lines[i])
          /\ IsInvalidLine(lines[j])
          /\ IsFrameLine(lines[k])
          /\ client.full = FragmentOf(lines[i]) \o FragmentOf(lines[k])

\* the fragments of the frames upstream sent, from the i-th event on, up to
\* the '[DONE]' event
RECURSIVE SentBeforeDone(_, _)
SentBeforeDone(es, i) ==
  IF i > Len(es) \/ es[i].kind = "done" THEN ""
  ELSE es[i].c \o SentBeforeDone(es, i + 1)

\* C25 as stated: when the reader has returned, the text it accumulated is
\* the fragments of all the frames upstream sent before '[DONE]', joined in
\* order, however the transport cut the body into chunks.
C25_TextIndependentOfChunking ==
  client.pc \in {"returned", "ended"} =>
    client.full = SentBeforeDone(client.sent, 1)

-----------------------------------------------------------------------------
(* The two routes and the one store *)

\* call r was answered from the store with the entry that call p had written
AnsweredWith(r, p) ==
  /\ p # r
  /\ reqs[r].outcome = "cache"
  /\ reqs[p].wrote # NoEntry
  /\ reqs[r].seen = reqs[p].wrote
  /\ reqs[r].res = ResJson(200, reqs[p].wrote.data)

\* C26 as stated: a call answered from the store is answered with an entry
\* that a call on the same route wrote, never with one written by a call on
\* the other route, whatever the payloads.
C26_NoCrossRouteHit ==
  \A r, p \in ReqIds : AnsweredWith(r, p) => reqs[p].route = reqs[r].route

\* call r was answered from the store with what upstream returned, with a
\* success status, to call p, which hashed the same payload and stored the
\* response less than CACHE_TTL before r looked it up
SoundHit(r, p) ==
  /\ AnsweredWith(r, p)
  /\ StoredBy(p, reqs[r].seen)
  /\ reqs[r].res.body = reqs[p].reply.json
  /\ reqs[r].seenAge < CACHE_TTL
  /\ reqs[p].hashed = reqs[r].hashed
  /\ reqs[r].route = "openai" =>
       /\ Prop(reqs[p].body, "messages") = Prop(reqs[r].body, "messages")
       /\ Prop(reqs[p].body, "model") = Prop(reqs[r].body, "model")

\* C27 as stated: every response served from the store is a body upstream
\* returned with a success status, less than CACHE_TTL earlier, to a call on
\* the same route with the same hashed payload.
C27_CacheSoundness ==
  \A r \in ReqIds :
    reqs[r].outcome = "cache" =>
      \E p \in ReqIds : SoundHit(r, p) /\ reqs[p].route = reqs[r].route

-----------------------------------------------------------------------------
(* The credentials and what callers are sent *)

\* a credential other than the ones configured
OtherCredential == "other-secret"

\* the environment with every credential that is set replaced by another
\* value: the same credentials are present and absent
SamePresence(e) ==
  [GOOGLE_VISION_API_KEY |-> IF e.GOOGLE_VISION_API_KEY = "" THEN "" ELSE OtherCredential,
   OPENAI_API_KEY |-> IF e.OPENAI_API_KEY = "" THEN "" ELSE OtherCredential]

\* C29 as stated: what a caller is sent does not depend on the value of a
\* credential, only on its presence: in every state, with the credentials
\* replaced by other values, each route answers every body as it does now,
\* a call awaiting its fetch is answered as it is now whatever the fetch
\* yields, and /test answers as it does now.
C29_ResponsesIndependentOfCredentials ==
  LET e2 == SamePresence(env)
  IN /\ testRoute(e2) = testRoute(env)
     /\ \A body \in VisionBodies : visionEntry(e2, body).rq.res = visionEntry(env, body).rq.res
     /\ \A body \in OpenAIBodies : openaiEntry(e2, body).rq.res = openaiEntry(env, body).rq.res
     /\ \A r \in ReqIds, reply \in Replies :
          reqs[r].pc = "fetch" =>
            afterFetch(reqs[r], Settled(reqs[r].route, e2, reply)).res
              = afterFetch(reqs[r], Settled(reqs[r].route, env, reply)).res

====
